---- MODULE Spec2Model ----
(***************************************************************************)
(* csv-worker: a job-driven ETL worker.  The module models                 *)
(*   - main (src/main.py) with the heartbeat thread and process_job        *)
(*     (src/services/jobs.py)                      -- specification Spec   *)
(*   - ChunkStream (src/models/file.py)            -- SpecStream           *)
(*   - ProcessingState (src/services/db.py)        -- SpecCounter          *)
(*   - process_csv_stream_to_mongo (src/services/db.py) -- SpecLoader      *)
(*   - _convert_pandas_dtypes_to_polars (src/services/db.py) -- SpecDtype  *)
(* SpecLive is Spec with the fairness of the threads' scheduling.          *)
(***************************************************************************)
EXTENDS Integers, Sequences, FiniteSets, TLC

VARIABLES
    \* ---- main / heartbeat / process_job
    pc,            \* position of main
    empty_retries, \* main.py:21
    next_job,      \* main.py:27, None or Some(job)
    hb_thread,     \* main.py:22, None or Some(thread id)
    stop_event,    \* per heartbeat thread: threading.Event flag
    hpc,           \* per heartbeat thread: position in _heartbeat_loop
    hb_failed,     \* per heartbeat thread: its last liveness call failed
    polls,         \* GET /jobs/next calls made since the last job was handed out
    failed_polls,  \* those of them that raised inside get_next_job
    sleeps,        \* time.sleep(sleep_seconds) calls made since then
    jobsOffered,   \* jobs the backend has handed out
    completeLog,   \* PUT /jobs/{id}/complete requests, in order
    loaderCall,    \* None or Some(arguments process_job gave the loader)
    handles,       \* the stream and the MongoClient of the job in hand
    exc,           \* None or Some(str(e)) of the exception in flight
    \* ---- ChunkStream
    chunks,        \* what the chunk iterator has still to yield
    buffer,        \* ChunkStream._buffer
    source,        \* the chunks the iterator was built from
    returned,      \* concatenation of the bytes the reads returned
    reads,         \* the sizes returned by readinto, in order
    \* ---- ProcessingState
    lock,          \* None or Some(thread) holding ProcessingState.lock
    rows_processed,
    cpc,           \* per counter thread: position
    creg,          \* per counter thread: the value read from rows_processed
    carg,          \* per counter thread: count argument of the add_rows call
    added,         \* sum of the counts of completed add_rows calls
    drained,       \* sum of the values get_and_reset returned
    ncalls,        \* counter calls started
    \* ---- process_csv_stream_to_mongo
    lpc,           \* position of the loader
    largs,         \* the loader's arguments
    resolved,      \* the values parsed from config (db.py:59-82)
    pending,       \* batches the reader has still to yield
    batches,       \* the batches fetched by next_batches(10)
    total_rows,
    chunk_number,
    inserted,      \* the bulk_write calls, each the documents it was given
    state_rows,    \* processing_state.rows_processed
    mongo_client,  \* "none", "open" or "closed": the MongoClient of the call
    lresult,       \* "running", "ok" or "raised"
    bulk_fail,     \* None, or Some(the bulk_write call that raised)
    drained_rows,  \* sum of the values get_and_reset has returned
    \* ---- _convert_pandas_dtypes_to_polars
    given_dtypes,    \* the argument pandas_dtypes: a dict from column to dtype name
    returned_dtypes  \* None, or Some(the dict returned)

mainVars == <<pc, empty_retries, next_job, hb_thread, stop_event, hpc,
              hb_failed, polls, failed_polls, sleeps, jobsOffered, completeLog,
              loaderCall, handles, exc>>
streamVars == <<chunks, buffer, source, returned, reads>>
counterVars == <<lock, rows_processed, cpc, creg, carg, added, drained, ncalls>>
loaderVars == <<lpc, largs, resolved, pending, batches, total_rows, chunk_number,
                inserted, state_rows, mongo_client, lresult, bulk_fail,
                drained_rows>>
dtypeVars == <<given_dtypes, returned_dtypes>>
vars == <<mainVars, streamVars, counterVars, loaderVars, dtypeVars>>
\* What an action of one part leaves alone: the state of the other parts.
notMain == <<streamVars, counterVars, loaderVars, dtypeVars>>
notStream == <<mainVars, counterVars, loaderVars, dtypeVars>>
notCounter == <<mainVars, streamVars, loaderVars, dtypeVars>>
notLoader == <<mainVars, streamVars, counterVars, dtypeVars>>
notDtype == <<mainVars, streamVars, counterVars, loaderVars>>

(***************************************************************************)
(* Python values                                                           *)
(***************************************************************************)
\* Optional values: None is the empty tuple, a present value v is <<v>>.
None == <<>>
Some(v) == <<v>>
IsSome(o) == o # <<>>
Get(o) == o[1]

\* Strings that the code parses are sequences of one-character strings.
Digits == {"0", "1", "2", "3", "4", "5", "6", "7", "8", "9"}
DigitVal(c) ==
    CASE c = "0" -> 0 [] c = "1" -> 1 [] c = "2" -> 2 [] c = "3" -> 3
      [] c = "4" -> 4 [] c = "5" -> 5 [] c = "6" -> 6 [] c = "7" -> 7
      [] c = "8" -> 8 [] c = "9" -> 9

\* Whitespace that str.strip() and int() remove: space, tab and newline
\* among it.
Whitespace == {" ", "\t", "\n"}
RECURSIVE LStrip(_)
LStrip(s) == IF s # <<>> /\ Head(s) \in Whitespace THEN LStrip(Tail(s)) ELSE s
RECURSIVE RStrip(_)
RStrip(s) ==
    IF s # <<>> /\ s[Len(s)] \in Whitespace
    THEN RStrip(SubSeq(s, 1, Len(s) - 1)) ELSE s
Strip(s) == RStrip(LStrip(s))

RECURSIVE DigitsValue(_, _)
DigitsValue(d, acc) ==
    IF d = <<>> THEN acc
    ELSE IF Head(d) = "_" THEN DigitsValue(Tail(d), acc)
    ELSE DigitsValue(Tail(d), 10 * acc + DigitVal(Head(d)))

\* The digit part int() accepts: digits, single underscores between digits.
ValidDigits(d) ==
    /\ Len(d) > 0
    /\ d[1] \in Digits
    /\ d[Len(d)] \in Digits
    /\ \A i \in 1..Len(d) : d[i] \in Digits \cup {"_"}
    /\ \A i \in 1..(Len(d) - 1) : ~(d[i] = "_" /\ d[i + 1] = "_")

\* Python's int(str): [ok |-> FALSE] stands for ValueError.
PyInt(s) ==
    LET t == Strip(s)
        signed == t # <<>> /\ Head(t) \in {"+", "-"}
        d == IF signed THEN Tail(t) ELSE t
    IN  IF ValidDigits(d)
        THEN [ok |-> TRUE,
              val |-> IF signed /\ Head(t) = "-" THEN 0 - DigitsValue(d, 0)
                      ELSE DigitsValue(d, 0)]
        ELSE [ok |-> FALSE, val |-> 0]

(***************************************************************************)
(* _convert_pandas_dtypes_to_polars (src/services/db.py:152-196)           *)
(***************************************************************************)
UpperLetters == <<"A", "B", "C", "D", "E", "F", "G", "H", "I", "J", "K", "L", "M", "N", "O", "P", "Q", "R", "S", "T", "U", "V", "W", "X", "Y", "Z">>
LowerLetters == <<"a", "b", "c", "d", "e", "f", "g", "h", "i", "j", "k", "l", "m", "n", "o", "p", "q", "r", "s", "t", "u", "v", "w", "x", "y", "z">>
LowerChar(c) ==
    IF \E i \in 1..Len(UpperLetters) : UpperLetters[i] = c
    THEN LowerLetters[CHOOSE i \in 1..Len(UpperLetters) : UpperLetters[i] = c]
    ELSE c
Lower(s) == [i \in 1..Len(s) |-> LowerChar(s[i])]

\* type_mapping: the pairs (key, polars type) of the dict literal.
type_mapping ==
    { <<<<"s", "t", "r">>, "Utf8">>,
      <<<<"s", "t", "r", "i", "n", "g">>, "Utf8">>,
      <<<<"o", "b", "j", "e", "c", "t">>, "Utf8">>,
      <<<<"i", "n", "t">>, "Int64">>,
      <<<<"i", "n", "t", "6", "4">>, "Int64">>,
      <<<<"I", "n", "t", "6", "4">>, "Int64">>,
      <<<<"i", "n", "t", "3", "2">>, "Int32">>,
      <<<<"I", "n", "t", "3", "2">>, "Int32">>,
      <<<<"i", "n", "t", "1", "6">>, "Int16">>,
      <<<<"I", "n", "t", "1", "6">>, "Int16">>,
      <<<<"i", "n", "t", "8">>, "Int8">>,
      <<<<"I", "n", "t", "8">>, "Int8">>,
      <<<<"f", "l", "o", "a", "t">>, "Float64">>,
      <<<<"f", "l", "o", "a", "t", "6", "4">>, "Float64">>,
      <<<<"f", "l", "o", "a", "t", "3", "2">>, "Float32">>,
      <<<<"b", "o", "o", "l">>, "Boolean">>,
      <<<<"b", "o", "o", "l", "e", "a", "n">>, "Boolean">>,
      <<<<"d", "a", "t", "e", "t", "i", "m", "e", "6", "4">>, "Datetime_ms">>,
      <<<<"d", "a", "t", "e", "t", "i", "m", "e", "6", "4", "[", "n", "s", "]">>, "Datetime_ns">> }
InTypeMapping(k) == \E p \in type_mapping : p[1] = k
TypeOf(k) == (CHOOSE p \in type_mapping : p[1] = k)[2]

\* A faulty variant: the dtype string is looked up as written only.
ConvertibleAsWritten(dtype_str) == InTypeMapping(dtype_str)

\* A dict is a function from its keys; the result keeps the columns whose
\* dtype string is found, first lower-cased and stripped, then as written.
ConvertibleDtype(dtype_str) ==
    InTypeMapping(Strip(Lower(dtype_str))) \/ InTypeMapping(dtype_str)
ConvertDtype(dtype_str) ==
    IF InTypeMapping(Strip(Lower(dtype_str)))
    THEN TypeOf(Strip(Lower(dtype_str)))
    ELSE TypeOf(dtype_str)
_convert_pandas_dtypes_to_polars(pandas_dtypes) ==
    [col \in {c \in DOMAIN pandas_dtypes : ConvertibleDtype(pandas_dtypes[c])}
        |-> ConvertDtype(pandas_dtypes[col])]

(***************************************************************************)
(* JobConfig and its resolution (src/models/jobs.py:19-33,                 *)
(* src/services/db.py:58-82)                                               *)
(***************************************************************************)
\* Truthiness of an optional str field: present and not the empty string.
Truthy(o) == IsSome(o) /\ Get(o) # ""

\* config is None or Some(JobConfig); a pydantic model is always truthy.
Field(config, f) == IF IsSome(config) THEN Get(config)[f] ELSE None

ResolveDelimiter(config) ==
    IF Truthy(Field(config, "delimitador")) THEN Get(Field(config, "delimitador")) ELSE ","
ResolveEncoding(config) ==
    IF Truthy(Field(config, "codec")) THEN Get(Field(config, "codec")) ELSE "utf-8"
ResolveSkipRows(config) ==
    IF IsSome(Field(config, "skiprows")) /\ Get(Field(config, "skiprows")) # 0
    THEN Get(Field(config, "skiprows")) ELSE 0
ResolveColumnNames(config) ==
    IF IsSome(Field(config, "campos")) /\ Get(Field(config, "campos")) # <<>>
    THEN Field(config, "campos") ELSE None
ResolveEncodingErrors(config) ==
    IF Truthy(Field(config, "merror")) THEN Get(Field(config, "merror")) ELSE "strict"
ResolveChunkSize(config, batch_size) ==
    IF IsSome(Field(config, "size")) /\ Get(Field(config, "size")) # <<>>
    THEN IF PyInt(Get(Field(config, "size"))).ok
         THEN PyInt(Get(Field(config, "size"))).val
         ELSE batch_size
    ELSE batch_size
ResolveSchemaOverrides(config) ==
    IF IsSome(Field(config, "reglas")) /\ DOMAIN Get(Field(config, "reglas")) # {}
    THEN Some(_convert_pandas_dtypes_to_polars(Get(Field(config, "reglas"))))
    ELSE None

\* The arguments pl.read_csv_batched is given (db.py:86-98).
ReaderArgs(config, batch_size) ==
    [separator |-> ResolveDelimiter(config),
     has_header |-> (ResolveSkipRows(config) = 0 /\ ResolveColumnNames(config) = None),
     new_columns |-> ResolveColumnNames(config),
     skip_rows |-> ResolveSkipRows(config),
     encoding |-> ResolveEncoding(config),
     ignore_errors |-> (ResolveEncodingErrors(config) # "strict"),
     schema_overrides |-> ResolveSchemaOverrides(config),
     batch_size |-> ResolveChunkSize(config, batch_size)]

(***************************************************************************)
(* Bounds and program constants                                            *)
(***************************************************************************)
MaxJobs == 2            \* jobs the backend hands out in one run
max_empty_retries == 2
DefaultBatchSize == 50000

Threads == 1..MaxJobs   \* the heartbeat thread of job j is thread j

(***************************************************************************)
(* Jobs of the backend (src/models/jobs.py)                                *)
(***************************************************************************)
ConfigAbsent ==
    [delimitador |-> None, size |-> None, campos |-> None, reglas |-> None,
     codec |-> None, skiprows |-> None, merror |-> None]
ConfigFull ==
    [delimitador |-> Some(";"), size |-> Some(<<"2">>),
     campos |-> Some(<<"a", "b">>),
     reglas |-> Some([c \in {"a"} |-> <<"I", "n", "t", "6", "4">>]),
     codec |-> Some("latin-1"), skiprows |-> Some(1), merror |-> Some("ignore")]
JobConfigs == {ConfigAbsent, ConfigFull}

\* More values of the size field (a str, models/jobs.py:20) for the loader.
ConfigBadSize == [ConfigAbsent EXCEPT !.size = Some(<<"x">>)]
ConfigEmptySize == [ConfigAbsent EXCEPT !.size = Some(<<>>)]
ConfigZeroSize == [ConfigAbsent EXCEPT !.size = Some(<<"0">>)]
ConfigNegativeSize == [ConfigAbsent EXCEPT !.size = Some(<<"-", "1">>)]
ConfigPaddedSize == [ConfigAbsent EXCEPT !.size = Some(<<" ", "3">>)]
LoaderConfigs ==
    JobConfigs \cup {ConfigBadSize, ConfigEmptySize, ConfigZeroSize,
                     ConfigNegativeSize, ConfigPaddedSize}

Period202401 == <<"2", "0", "2", "4", "0", "1">>
JobResponse(id, config) ==
    [id |-> id, client_id |-> 7, period |-> Period202401, config |-> config]

\* str(e) of what stream_blob can raise: any exception text, the empty one too.
StreamErrors == {"", "Invalid blob URL path; cannot parse container/blob name"}
\* str(e) of what process_csv_stream_to_mongo raises (db.py:147).
CsvError == "Error during CSV processing: e"
\* str(e) of what client[mongo_db][mongo_collection] raises for a name the
\* store refuses (db.py:56, job.collection_name at jobs.py:99).
InvalidName == "collection names cannot be empty"
\* str(e) of an exception leaving mark_complete.
CompleteError == "complete failed"

(***************************************************************************)
(* main (src/main.py) and process_job, mark_complete, get_next_job         *)
(* (src/services/jobs.py)                                                  *)
(***************************************************************************)
\* The resources of the job in hand: the blob stream process_job got from
\* stream_blob and the MongoClient of the loader.
NoHandles == [stream |-> "none", client |-> "none"]

InitMain ==
    /\ pc = "poll"
    /\ empty_retries = 0
    /\ next_job = None
    /\ hb_thread = None
    /\ stop_event = [t \in Threads |-> FALSE]
    /\ hpc = [t \in Threads |-> "unborn"]
    /\ hb_failed = [t \in Threads |-> FALSE]
    /\ polls = 0
    /\ failed_polls = 0
    /\ sleeps = 0
    /\ jobsOffered = 0
    /\ completeLog = <<>>
    /\ loaderCall = None
    /\ handles = NoHandles
    /\ exc = None

\* A faulty variant: the retry budget is compared with >= instead of >.
RetriesExhaustedEarly(n) == n >= max_empty_retries

\* main.py:51
RetriesExhausted(n) == n > max_empty_retries

\* A faulty variant: a job leaves the count of empty polls as it is.
KeepRetries(n) == n

\* main.py:30
ResetRetries(n) == 0

\* get_next_job returns a validated job (jobs.py:52-55); main.py:29-30.
GetNextJobSome ==
    /\ pc = "poll"
    /\ jobsOffered < MaxJobs
    /\ \E config \in JobConfigs :
          next_job' = Some(JobResponse(jobsOffered + 1, config))
    /\ jobsOffered' = jobsOffered + 1
    /\ polls' = 0
    /\ failed_polls' = 0
    /\ sleeps' = 0
    /\ loaderCall' = None
    /\ handles' = NoHandles
    /\ empty_retries' = ResetRetries(empty_retries)
    /\ pc' = "start_heartbeat"
    /\ UNCHANGED <<notMain, hb_thread, stop_event, hpc, hb_failed, completeLog,
                   exc>>

\* The answers to GET /jobs/next that give no job: status 204; a network
\* error; a 4xx/5xx status, which raise_for_status raises for (api.py:73); a
\* body that JobResponse.model_validate refuses (jobs.py:55).
PollAnswers == {"204", "network_error", "http_error", "invalid_body"}
PollError == "Error fetching next job"

\* A faulty variant: an exception of the poll leaves get_next_job.
PollErrorPropagates(answer) == answer # "204"

\* jobs.py:56-58: get_next_job catches every Exception, logs it and returns
\* None.
PollRaises(answer) == FALSE

\* get_next_job returns None for a 204 or after an exception (jobs.py:53-58);
\* main.py:50-57. An exception out of get_next_job would reach main.py:60
\* with no heartbeat to stop.
GetNextJobNone ==
    /\ pc = "poll"
    /\ \E answer \in PollAnswers :
          /\ polls' = polls + 1
          /\ failed_polls' = IF answer = "204" THEN failed_polls ELSE failed_polls + 1
          /\ IF PollRaises(answer)
             THEN /\ pc' = "raised"
                  /\ exc' = Some(PollError)
                  /\ UNCHANGED <<next_job, empty_retries>>
             ELSE /\ next_job' = None
                  /\ empty_retries' = empty_retries + 1
                  /\ pc' = IF RetriesExhausted(empty_retries + 1)
                           THEN "returned" ELSE "sleep"
                  /\ exc' = exc
    /\ UNCHANGED <<notMain, hb_thread, stop_event, hpc, hb_failed, sleeps,
                   jobsOffered, completeLog, loaderCall, handles>>

\* main.py:58
Sleep ==
    /\ pc = "sleep"
    /\ sleeps' = sleeps + 1
    /\ pc' = "poll"
    /\ UNCHANGED <<notMain, empty_retries, next_job, hb_thread, stop_event, hpc,
                   hb_failed, polls, failed_polls, jobsOffered, completeLog, loaderCall,
                   handles, exc>>

\* start_heartbeat (jobs.py:16-29), main.py:33-38
StartHeartbeat ==
    /\ pc = "start_heartbeat"
    /\ LET t == Get(next_job).id
       IN  /\ stop_event' = [stop_event EXCEPT ![t] = FALSE]
           /\ hpc' = [hpc EXCEPT ![t] = "check"]
           /\ hb_thread' = Some(t)
    /\ pc' = "stream_blob"
    /\ UNCHANGED <<notMain, empty_retries, next_job, hb_failed, polls, failed_polls, sleeps,
                   jobsOffered, completeLog, loaderCall, handles, exc>>

\* process_job: stream_blob (jobs.py:89-93) returns a stream or raises.
StreamBlob ==
    /\ pc = "stream_blob"
    /\ \/ /\ pc' = "process_csv"
          /\ exc' = None
          /\ handles' = [handles EXCEPT !.stream = "open"]
       \/ \E e \in StreamErrors :
             /\ exc' = Some(e)
             /\ pc' = "mark_failed"
             /\ handles' = handles
    /\ UNCHANGED <<notMain, empty_retries, next_job, hb_thread, stop_event, hpc,
                   hb_failed, polls, failed_polls, sleeps, jobsOffered, completeLog,
                   loaderCall>>

\* The arguments process_job gives process_csv_stream_to_mongo (jobs.py:95-103).
LoaderArgs(job) ==
    [config |-> None, client_id |-> None, period |-> None,
     batch_size |-> DefaultBatchSize, processing_state |-> FALSE]

\* process_job: the loader runs with LoaderArgs. It returns, or raises from
\* its try block, in both cases after client.close() (db.py:84-149); or
\* client[mongo_db][mongo_collection] raises before the try block (db.py:56)
\* and the client stays open. Nothing closes the stream.
ProcessCsv ==
    /\ pc = "process_csv"
    /\ LET job == Get(next_job)
           args == LoaderArgs(job)
       IN  loaderCall' = Some([job |-> job, args |-> args,
                               reader |-> ReaderArgs(args.config, args.batch_size)])
    /\ \/ /\ pc' = "mark_ok"
          /\ exc' = None
          /\ handles' = [handles EXCEPT !.client = "closed"]
       \/ /\ pc' = "mark_failed"
          /\ exc' = Some(CsvError)
          /\ handles' = [handles EXCEPT !.client = "closed"]
       \/ /\ pc' = "mark_failed"
          /\ exc' = Some(InvalidName)
          /\ handles' = [handles EXCEPT !.client = "open"]
    /\ UNCHANGED <<notMain, empty_retries, next_job, hb_thread, stop_event, hpc,
                   hb_failed, polls, failed_polls, sleeps, jobsOffered, completeLog>>

\* mark_complete: the query parameters of the PUT (jobs.py:67).
CompleteParams(error_message) ==
    IF Truthy(error_message)
    THEN Some([error_message |-> Get(error_message)])
    ELSE None

\* mark_complete (jobs.py:61-79): one PUT /jobs/{id}/complete with the given
\* outcome; the entry notes the error_message argument of the call and the
\* resources of the job at that moment.
MarkComplete(error_message, outcome) ==
    completeLog' = Append(completeLog,
                          [job |-> Get(next_job).id,
                           error |-> error_message,
                           params |-> CompleteParams(error_message),
                           outcome |-> outcome,
                           handles |-> handles])

\* The outcomes of the PUT: status 200, or a failure (another status, an
\* exception of the request).
CompleteOutcomes == {"200", "failed"}

\* A faulty variant: a failure of the PUT leaves mark_complete as an exception.
CompletionPropagates(outcome) == outcome = "failed"

\* jobs.py:74-79: mark_complete logs every failure of the PUT and returns.
CompletionRaises(outcome) == FALSE

\* process_job, success (jobs.py:105); then main.py:44. An exception out of
\* mark_complete would be caught at jobs.py:106.
MarkOk ==
    /\ pc = "mark_ok"
    /\ \E outcome \in CompleteOutcomes :
          /\ MarkComplete(None, outcome)
          /\ pc' = IF CompletionRaises(outcome) THEN "mark_failed" ELSE "stop_set"
          /\ exc' = IF CompletionRaises(outcome) THEN Some(CompleteError) ELSE exc
    /\ UNCHANGED <<notMain, empty_retries, next_job, hb_thread, stop_event, hpc,
                   hb_failed, polls, failed_polls, sleeps, jobsOffered, loaderCall,
                   handles>>

\* process_job, failure (jobs.py:106-109): report, re-raise into main.py:60.
MarkFailed ==
    /\ pc = "mark_failed"
    /\ \E outcome \in CompleteOutcomes : MarkComplete(exc, outcome)
    /\ pc' = "except_set"
    /\ UNCHANGED <<notMain, empty_retries, next_job, hb_thread, stop_event, hpc,
                   hb_failed, polls, failed_polls, sleeps, jobsOffered, loaderCall,
                   handles, exc>>

\* main.py:44 and main.py:63-64: stop_event.set()
StopSet ==
    /\ pc \in {"stop_set", "except_set"}
    /\ IsSome(hb_thread)
    /\ stop_event' = [stop_event EXCEPT ![Get(hb_thread)] = TRUE]
    /\ pc' = IF pc = "stop_set" THEN "join" ELSE "except_join"
    /\ UNCHANGED <<notMain, empty_retries, next_job, hb_thread, hpc, hb_failed,
                   polls, failed_polls, sleeps, jobsOffered, completeLog, loaderCall, handles, exc>>

\* A faulty variant: join() without a timeout returns when the thread has exited.
JoinWithoutTimeout(t) == hpc[t] = "exited"

\* hb_thread.join(timeout=5) returns: the thread has exited, or the timeout
\* has passed while the thread is blocked in its request.
JoinReturns(t) == hpc[t] = "exited" \/ hpc[t] = "inflight"

\* main.py:45-48
Join ==
    /\ pc = "join"
    /\ JoinReturns(Get(hb_thread))
    /\ hb_thread' = None
    /\ pc' = "poll"
    /\ UNCHANGED <<notMain, empty_retries, next_job, stop_event, hpc, hb_failed,
                   polls, failed_polls, sleeps, jobsOffered, completeLog, loaderCall, handles, exc>>

\* main.py:65-66
ExceptJoin ==
    /\ pc = "except_join"
    /\ JoinReturns(Get(hb_thread))
    /\ pc' = "raised"
    /\ UNCHANGED <<notMain, empty_retries, next_job, hb_thread, stop_event, hpc,
                   hb_failed, polls, failed_polls, sleeps, jobsOffered, completeLog,
                   loaderCall, handles,
                   exc>>

(***************************************************************************)
(* _heartbeat_loop (src/services/jobs.py:32-47), a daemon thread           *)
(***************************************************************************)
ProcessAlive == pc \notin {"returned", "raised"}

\* jobs.py:40
LoopContinues(t) == ~stop_event[t]

HbCheck(t) ==
    /\ ProcessAlive
    /\ hpc[t] = "check"
    /\ hpc' = [hpc EXCEPT ![t] = IF LoopContinues(t) THEN "call" ELSE "exited"]
    /\ hb_failed' = [hb_failed EXCEPT ![t] = LoopContinues(t) /\ hb_failed[t]]
    /\ UNCHANGED <<notMain, pc, empty_retries, next_job, hb_thread, stop_event,
                   polls, failed_polls, sleeps, jobsOffered, completeLog, loaderCall, handles, exc>>

\* jobs.py:42: the PUT /jobs/{id}/heartbeat request starts
HbPut(t) ==
    /\ ProcessAlive
    /\ hpc[t] = "call"
    /\ hpc' = [hpc EXCEPT ![t] = "inflight"]
    /\ UNCHANGED <<notMain, pc, empty_retries, next_job, hb_thread, stop_event,
                   hb_failed, polls, failed_polls, sleeps, jobsOffered, completeLog,
                   loaderCall, handles,
                   exc>>

\* The outcomes of client.put: status 200; another status that
\* raise_for_status lets pass (api.py:73, jobs.py:43-44); an exception, that of
\* raise_for_status included (jobs.py:45-46).
HbOutcomes == {"200", "non200", "raised"}

\* A faulty variant: a failed call ends the loop.
AfterCallFailureExits(outcome) == IF outcome = "200" THEN "wait" ELSE "exited"

\* jobs.py:43-47: whatever the outcome, it is at most logged and the loop goes
\* on to stop_event.wait(interval).
AfterCall(outcome) == "wait"

\* jobs.py:42-46: the request returns or raises
HbReturn(t) ==
    /\ ProcessAlive
    /\ hpc[t] = "inflight"
    /\ \E outcome \in HbOutcomes :
          /\ hpc' = [hpc EXCEPT ![t] = AfterCall(outcome)]
          /\ hb_failed' = [hb_failed EXCEPT ![t] = outcome # "200"]
    /\ UNCHANGED <<notMain, pc, empty_retries, next_job, hb_thread, stop_event, polls,
                   failed_polls, sleeps, jobsOffered, completeLog, loaderCall, handles,
                   exc>>

\* jobs.py:47: stop_event.wait(interval) returns, the event set or the
\* interval over
HbWait(t) ==
    /\ ProcessAlive
    /\ hpc[t] = "wait"
    /\ hpc' = [hpc EXCEPT ![t] = "check"]
    /\ UNCHANGED <<notMain, pc, empty_retries, next_job, hb_thread, stop_event, hb_failed,
                   polls, failed_polls, sleeps, jobsOffered, completeLog, loaderCall, handles, exc>>

(***************************************************************************)
(* ChunkStream (src/models/file.py)                                        *)
(***************************************************************************)
MaxChunks == 3          \* chunks the iterator yields
MaxChunkLen == 2        \* bytes in one chunk
MaxRead == 3            \* len(b) of one readinto call
MaxEofReads == 2        \* reads made after the stream has returned 0

Min(a, b) == IF a < b THEN a ELSE b
Last(q) == q[Len(q)]

RECURSIVE Concat(_)
Concat(ss) == IF ss = <<>> THEN <<>> ELSE Head(ss) \o Concat(Tail(ss))

RECURSIVE SumSeq(_)
SumSeq(ns) == IF ns = <<>> THEN 0 ELSE Head(ns) + SumSeq(Tail(ns))

\* The chunk lists of the given chunk lengths; byte k of the whole stream has
\* the value k, so that a dropped, repeated or reordered byte shows.
ChunksOfLengths(lens) ==
    [i \in 1..Len(lens) |->
        [k \in 1..lens[i] |-> SumSeq(SubSeq(lens, 1, i - 1)) + k]]
ChunkLists ==
    UNION {{ChunksOfLengths(lens) : lens \in [1..n -> 0..MaxChunkLen]} :
           n \in 0..MaxChunks}

\* ChunkStream.__init__ (file.py:7-10)
InitStream ==
    /\ source \in ChunkLists
    /\ chunks = source
    /\ buffer = <<>>
    /\ returned = <<>>
    /\ reads = <<>>

\* A faulty variant: an if in place of the while; one chunk is taken, empty or not.
FillOnce(buf, chs) ==
    IF Len(buf) # 0 THEN [buffer |-> buf, chunks |-> chs, eof |-> FALSE]
    ELSE IF chs = <<>> THEN [buffer |-> buf, chunks |-> chs, eof |-> TRUE]
    ELSE [buffer |-> Head(chs), chunks |-> Tail(chs), eof |-> FALSE]

\* file.py:16-20: while the buffer is empty take the next chunk; StopIteration
\* ends the read with 0.
RECURSIVE Fill(_, _)
Fill(buf, chs) ==
    IF Len(buf) # 0 THEN [buffer |-> buf, chunks |-> chs, eof |-> FALSE]
    ELSE IF chs = <<>> THEN [buffer |-> buf, chunks |-> chs, eof |-> TRUE]
    ELSE Fill(Head(chs), Tail(chs))

\* A faulty variant: the rest of the chunk is forgotten.
DropRemainder(buf, n) == <<>>

\* file.py:24: what stays buffered after n bytes were handed out
Remainder(buf, n) == SubSeq(buf, n + 1, Len(buf))

\* ChunkStream.readinto(b) with len(b) = size (file.py:15-25)
Readinto(size) ==
    /\ Len(SelectSeq(reads, LAMBDA r : r = 0)) < MaxEofReads
    /\ LET f == Fill(buffer, chunks)
           n == IF f.eof THEN 0 ELSE Min(size, Len(f.buffer))
       IN  /\ chunks' = f.chunks
           /\ buffer' = IF f.eof THEN f.buffer ELSE Remainder(f.buffer, n)
           /\ returned' = returned \o SubSeq(f.buffer, 1, n)
           /\ reads' = Append(reads, n)
    /\ UNCHANGED <<notStream, source>>

(***************************************************************************)
(* ProcessingState (src/services/db.py:12-29)                              *)
(***************************************************************************)
NumCounterThreads == 2  \* threads calling the counter
MaxCount == 2           \* largest count given to add_rows
MaxCalls == 4           \* calls on the counter in one run

CThreads == 1..NumCounterThreads

\* ProcessingState.__init__ (db.py:15-17)
InitCounter ==
    /\ lock = None
    /\ rows_processed = 0
    /\ cpc = [t \in CThreads |-> "idle"]
    /\ creg = [t \in CThreads |-> 0]
    /\ carg = [t \in CThreads |-> 0]
    /\ added = 0
    /\ drained = 0
    /\ ncalls = 0

\* a thread calls add_rows(count) (db.py:19)
CallAddRows(t) ==
    /\ cpc[t] = "idle"
    /\ ncalls < MaxCalls
    /\ \E count \in 1..MaxCount : carg' = [carg EXCEPT ![t] = count]
    /\ cpc' = [cpc EXCEPT ![t] = "add_acquire"]
    /\ ncalls' = ncalls + 1
    /\ UNCHANGED <<notCounter, lock, rows_processed, creg, added, drained>>

\* a thread calls get_and_reset() (db.py:24)
CallGetAndReset(t) ==
    /\ cpc[t] = "idle"
    /\ ncalls < MaxCalls
    /\ cpc' = [cpc EXCEPT ![t] = "get_acquire"]
    /\ ncalls' = ncalls + 1
    /\ UNCHANGED <<notCounter, lock, rows_processed, creg, carg, added, drained>>

\* A faulty variant: the counter is updated without taking the lock.
LockIgnored == TRUE

\* with self.lock: the lock is taken when no thread holds it (db.py:21, 26)
LockFree == lock = None

Acquire(t) ==
    /\ cpc[t] \in {"add_acquire", "get_acquire"}
    /\ LockFree
    /\ lock' = Some(t)
    /\ cpc' = [cpc EXCEPT ![t] = IF cpc[t] = "add_acquire" THEN "add_read" ELSE "get_read"]
    /\ UNCHANGED <<notCounter, rows_processed, creg, carg, added, drained, ncalls>>

\* self.rows_processed += count reads the attribute ... (db.py:22)
AddRead(t) ==
    /\ cpc[t] = "add_read"
    /\ creg' = [creg EXCEPT ![t] = rows_processed]
    /\ cpc' = [cpc EXCEPT ![t] = "add_write"]
    /\ UNCHANGED <<notCounter, lock, rows_processed, carg, added, drained, ncalls>>

\* ... and stores the sum (db.py:22)
AddWrite(t) ==
    /\ cpc[t] = "add_write"
    /\ rows_processed' = creg[t] + carg[t]
    /\ cpc' = [cpc EXCEPT ![t] = "add_release"]
    /\ UNCHANGED <<notCounter, lock, creg, carg, added, drained, ncalls>>

\* delta = self.rows_processed (db.py:27)
GetRead(t) ==
    /\ cpc[t] = "get_read"
    /\ creg' = [creg EXCEPT ![t] = rows_processed]
    /\ cpc' = [cpc EXCEPT ![t] = "get_reset"]
    /\ UNCHANGED <<notCounter, lock, rows_processed, carg, added, drained, ncalls>>

\* self.rows_processed = 0 (db.py:28)
GetReset(t) ==
    /\ cpc[t] = "get_reset"
    /\ rows_processed' = 0
    /\ cpc' = [cpc EXCEPT ![t] = "get_release"]
    /\ UNCHANGED <<notCounter, lock, creg, carg, added, drained, ncalls>>

\* the with block ends and the call returns (db.py:22, 29)
Release(t) ==
    /\ cpc[t] \in {"add_release", "get_release"}
    /\ lock' = None
    /\ added' = IF cpc[t] = "add_release" THEN added + carg[t] ELSE added
    /\ drained' = IF cpc[t] = "get_release" THEN drained + creg[t] ELSE drained
    /\ cpc' = [cpc EXCEPT ![t] = "idle"]
    /\ UNCHANGED <<notCounter, rows_processed, creg, carg, ncalls>>

(***************************************************************************)
(* process_csv_stream_to_mongo (src/services/db.py:32-149)                 *)
(***************************************************************************)
MaxRecords == 11        \* records in the CSV file
MaxBatch == 3           \* the worker's batch_size setting
BatchesPerFetch == 10   \* df_reader.next_batches(10)

Periods ==
    { Period202401,
      <<"Q", "1", "-", "2", "0", "2", "4">>,
      <<>>,
      <<"0", "7">>,
      <<"-", "7">>,
      <<" ", "1", "2", " ">>,
      <<"1", "_", "0">>,
      <<"7", "a">> }

\* The calls of the loader: every file length and batch_size, with at most
\* two of the enrichment arguments (client_id, period), a config and a
\* processing_state; the three are used in separate places of the loader
\* (db.py:110-118, 59-82, 129-130).
LoaderArguments ==
    [records : 0..MaxRecords,
     batch_size : 1..MaxBatch,
     client_id : {None, Some(0), Some(7)},
     period : {None} \cup {Some(p) : p \in Periods},
     config : {None} \cup {Some(c) : c \in LoaderConfigs},
     processing_state : BOOLEAN]
OptionsGiven(a) ==
    (IF IsSome(a.client_id) \/ IsSome(a.period) THEN 1 ELSE 0)
    + (IF IsSome(a.config) THEN 1 ELSE 0)
    + (IF a.processing_state THEN 1 ELSE 0)
LoaderInputs == {a \in LoaderArguments : OptionsGiven(a) <= 2}

InitLoader ==
    /\ largs \in LoaderInputs
    /\ lpc = "connect"
    /\ resolved = None
    /\ pending = <<>>
    /\ batches = <<>>
    /\ total_rows = 0
    /\ chunk_number = 0
    /\ inserted = <<>>
    /\ state_rows = 0
    /\ mongo_client = "none"
    /\ lresult = "running"
    /\ bulk_fail = None
    /\ drained_rows = 0

\* The reader hands out the rows in file order, batch_size rows to a batch,
\* the last batch the rest (db.py:86-98, batch_size=chunk_size).
RECURSIVE SplitRows(_, _)
SplitRows(rows, size) ==
    IF rows = <<>> THEN <<>>
    ELSE <<SubSeq(rows, 1, Min(size, Len(rows)))>>
         \o SplitRows(SubSeq(rows, Min(size, Len(rows)) + 1, Len(rows)), size)

\* The rows a batch holds for batch_size = size. The code gives the reader a
\* size below 1 as it is (db.py:69, 96); what the reader makes of it is not
\* the code's choice: any batch length.
ReaderSizes(size) == IF size >= 1 THEN {size} ELSE 1..MaxBatch

\* A file without data rows yields no batch, or one empty batch.
ReaderBatches(n, size) ==
    IF n = 0 THEN {<<>>, << <<>> >>}
    ELSE {SplitRows([i \in 1..n |-> i], k) : k \in ReaderSizes(size)}

\* A faulty variant: the period is never converted.
PeriodVerbatim(period) == [kind |-> "str", int |-> 0, str |-> period]

\* db.py:113-117: int(period), the period itself on ValueError
PeriodValue(period) ==
    IF PyInt(period).ok
    THEN [kind |-> "int", int |-> PyInt(period).val, str |-> <<>>]
    ELSE [kind |-> "str", int |-> 0, str |-> period]

\* db.py:110-121: the documents of one batch
Enrich(df, client_id, period) ==
    [i \in 1..Len(df) |->
        [row |-> df[i],
         ctr |-> IF IsSome(client_id) THEN Some(Get(client_id)) ELSE None,
         crx |-> IF IsSome(period) THEN Some(PeriodValue(Get(period))) ELSE None]]

\* A faulty variant: bulk_write is called for an empty batch too.
AlwaysInsert(docs) == TRUE

\* db.py:124
ShouldInsert(docs) == Len(docs) # 0

\* A faulty variant: the batch whose bulk_write raised is tried again.
RetryBatch == "for_df"

\* db.py:125, 144: an exception of bulk_write leaves the loops for the except
\* block.
AfterBulkWriteError == "except"

\* A faulty variant: the rows are counted before bulk_write is called.
RowsCountedBeforeWrite(rows_in_batch, written) == rows_in_batch

\* db.py:125-130: what processing_state gains from a batch: its rows once
\* bulk_write has returned, nothing when bulk_write raised.
RowsCounted(rows_in_batch, written) == IF written THEN rows_in_batch ELSE 0

\* db.py:55-82: MongoClient(mongo_uri), then the configuration is parsed
LoaderConnect ==
    /\ lpc = "connect"
    /\ mongo_client' = "open"
    /\ resolved' = Some(ReaderArgs(largs.config, largs.batch_size))
    /\ lpc' = "read_csv"
    /\ UNCHANGED <<notLoader, largs, pending, batches, total_rows, chunk_number, inserted,
                   state_rows, lresult, bulk_fail, drained_rows>>

\* db.py:86-101: pl.read_csv_batched returns a reader, or raises
ReadCsvBatched ==
    /\ lpc = "read_csv"
    /\ \/ /\ pending' \in ReaderBatches(largs.records, Get(resolved).batch_size)
          /\ lpc' = "next_batches"
       \/ /\ pending' = pending
          /\ lpc' = "except"
    /\ total_rows' = 0
    /\ chunk_number' = 0
    /\ UNCHANGED <<notLoader, largs, resolved, batches, inserted, state_rows, mongo_client,
                   lresult, bulk_fail, drained_rows>>

\* db.py:104, 137 and the loop test of 105: the next batches, at most 10
NextBatches ==
    /\ lpc = "next_batches"
    /\ LET k == Min(BatchesPerFetch, Len(pending))
       IN  /\ batches' = SubSeq(pending, 1, k)
           /\ pending' = SubSeq(pending, k + 1, Len(pending))
           /\ lpc' = IF k = 0 THEN "finish" ELSE "for_df"
    /\ UNCHANGED <<notLoader, largs, resolved, total_rows, chunk_number, inserted,
                   state_rows,
                   mongo_client, lresult, bulk_fail, drained_rows>>

\* Where the loop goes after a batch: the next batch, or next_batches(10).
NextDf(rest) == IF rest = <<>> THEN "next_batches" ELSE "for_df"

\* db.py:106-126: one batch up to its bulk_write, which returns or raises
ForDf ==
    /\ lpc = "for_df"
    /\ chunk_number' = chunk_number + 1
    /\ LET docs == Enrich(Head(batches), largs.client_id, largs.period)
           rows_in_batch == Len(docs)
       IN  \/ /\ ShouldInsert(docs)
              /\ inserted' = Append(inserted, docs)
              /\ total_rows' = total_rows + rows_in_batch
              /\ batches' = Tail(batches)
              /\ lpc' = IF largs.processing_state THEN "add_rows"
                        ELSE NextDf(Tail(batches))
              /\ UNCHANGED <<state_rows, bulk_fail>>
           \/ /\ ShouldInsert(docs)
              /\ bulk_fail' = Some([chunk |-> chunk_number + 1, inserted |-> inserted])
              /\ state_rows' = IF largs.processing_state
                               THEN state_rows + RowsCounted(rows_in_batch, FALSE)
                               ELSE state_rows
              /\ lpc' = AfterBulkWriteError
              /\ UNCHANGED <<inserted, total_rows, batches>>
           \/ /\ ~ShouldInsert(docs)
              /\ batches' = Tail(batches)
              /\ lpc' = NextDf(Tail(batches))
              /\ UNCHANGED <<inserted, total_rows, state_rows, bulk_fail>>
    /\ UNCHANGED <<notLoader, largs, resolved, pending, mongo_client, lresult,
                   drained_rows>>

\* db.py:129-130: processing_state.add_rows(rows_in_batch), the batch being
\* the one bulk_write has just returned for
AddRows ==
    /\ lpc = "add_rows"
    /\ state_rows' = state_rows + RowsCounted(Len(Last(inserted)), TRUE)
    /\ lpc' = NextDf(batches)
    /\ UNCHANGED <<notLoader, largs, resolved, pending, batches, total_rows, chunk_number,
                   inserted, mongo_client, lresult, bulk_fail, drained_rows>>

\* A reporting thread calls processing_state.get_and_reset() (db.py:24-29)
\* at any moment of the load or after it.
GetAndReset ==
    /\ lpc # "idle"
    /\ largs.processing_state
    /\ drained_rows' = drained_rows + state_rows
    /\ state_rows' = 0
    /\ UNCHANGED <<notLoader, lpc, largs, resolved, pending, batches, total_rows,
                   chunk_number, inserted, mongo_client, lresult, bulk_fail>>

\* db.py:139-142, 148-149: the loop is over; finally client.close()
LoaderFinish ==
    /\ lpc = "finish"
    /\ mongo_client' = "closed"
    /\ lresult' = "ok"
    /\ lpc' = "done"
    /\ UNCHANGED <<notLoader, largs, resolved, pending, batches, total_rows, chunk_number,
                   inserted, state_rows, bulk_fail, drained_rows>>

\* db.py:144-149: the error is wrapped and raised; finally client.close()
LoaderExcept ==
    /\ lpc = "except"
    /\ mongo_client' = "closed"
    /\ lresult' = "raised"
    /\ lpc' = "done"
    /\ UNCHANGED <<notLoader, largs, resolved, pending, batches, total_rows, chunk_number,
                   inserted, state_rows, bulk_fail, drained_rows>>

(***************************************************************************)
(* Calls of _convert_pandas_dtypes_to_polars (src/services/db.py:152-196)  *)
(***************************************************************************)
MaxCols == 1            \* columns of the dict given to the conversion

UpperChar(c) ==
    IF \E i \in 1..Len(LowerLetters) : LowerLetters[i] = c
    THEN UpperLetters[CHOOSE i \in 1..Len(LowerLetters) : LowerLetters[i] = c]
    ELSE c
Upper(s) == [i \in 1..Len(s) |-> UpperChar(s[i])]

\* The dtype names given: every key of type_mapping as written, in upper
\* case, in upper case between spaces; some keys in mixed case or between
\* tabs and newlines; names of no family.
DtypeKeys == {p[1] : p \in type_mapping}
DtypeNames ==
    UNION {{k, Upper(k), <<" ">> \o Upper(k) \o <<" ">>} : k \in DtypeKeys}
    \cup { <<"\t", "B", "o", "o", "l", "\n">>,
           <<"F", "l", "o", "a", "t", "3", "2", " ">>,
           <<"b", "o", "g", "u", "s">>,
           <<>>,
           <<" ">>,
           <<"i", "n", "t", " ", "6", "4">>,
           <<"i", "n", "t", "6", "4", "x">>,
           <<"c", "a", "t", "e", "g", "o", "r", "y">> }
ColumnNames == <<"a", "b", "c", "d">>
Columns(n) == {ColumnNames[i] : i \in 1..n}

InitDtype ==
    /\ given_dtypes \in UNION {[Columns(n) -> DtypeNames] : n \in 0..MaxCols}
    /\ returned_dtypes = None

\* One call: the dict returned (db.py:188-196)
ConvertDtypes ==
    /\ returned_dtypes = None
    /\ returned_dtypes' = Some(_convert_pandas_dtypes_to_polars(given_dtypes))
    /\ UNCHANGED <<notDtype, given_dtypes>>

(***************************************************************************)
(* Specifications                                                          *)
(***************************************************************************)
\* The parts a specification does not run stay as constructed.
IdleMain ==
    /\ InitMain
IdleStream ==
    /\ source = <<>> /\ chunks = <<>> /\ buffer = <<>> /\ returned = <<>>
    /\ reads = <<>>
IdleCounter ==
    /\ InitCounter
IdleLoader ==
    /\ largs = [records |-> 0, batch_size |-> 1, client_id |-> None,
                period |-> None, config |-> None, processing_state |-> FALSE]
    /\ lpc = "idle" /\ resolved = None /\ pending = <<>> /\ batches = <<>>
    /\ total_rows = 0 /\ chunk_number = 0 /\ inserted = <<>> /\ state_rows = 0
    /\ mongo_client = "none" /\ lresult = "running"
    /\ bulk_fail = None /\ drained_rows = 0
IdleDtype ==
    /\ given_dtypes = <<>> /\ returned_dtypes = None

\* The worker: main and its heartbeat threads.
Init == InitMain /\ IdleStream /\ IdleCounter /\ IdleLoader /\ IdleDtype
Next ==
    \/ GetNextJobSome \/ GetNextJobNone \/ Sleep \/ StartHeartbeat
    \/ StreamBlob \/ ProcessCsv \/ MarkOk \/ MarkFailed
    \/ StopSet \/ Join \/ ExceptJoin
    \/ \E t \in Threads : HbCheck(t) \/ HbPut(t) \/ HbReturn(t) \/ HbWait(t)
Spec == Init /\ [][Next]_vars

\* The worker under the scheduling the code can count on: a thread that can
\* take a step takes it (test of the event, start of the request, return of
\* stop_event.wait), and set() and join(timeout=5) return. No liveness call
\* is required to return.
Fairness ==
    /\ WF_vars(StopSet)
    /\ WF_vars(Join)
    /\ WF_vars(ExceptJoin)
    /\ \A t \in Threads :
          WF_vars(HbCheck(t)) /\ WF_vars(HbPut(t)) /\ WF_vars(HbWait(t))
SpecLive == Init /\ [][Next]_vars /\ Fairness

\* A ChunkStream read to its end.
StreamInit == InitStream /\ IdleMain /\ IdleCounter /\ IdleLoader /\ IdleDtype
StreamNext == \E size \in 1..MaxRead : Readinto(size)
SpecStream == StreamInit /\ [][StreamNext]_vars

\* Threads sharing one ProcessingState.
CounterInit == InitCounter /\ IdleMain /\ IdleStream /\ IdleLoader /\ IdleDtype
CounterNext ==
    \E t \in CThreads :
        \/ CallAddRows(t) \/ CallGetAndReset(t) \/ Acquire(t)
        \/ AddRead(t) \/ AddWrite(t) \/ GetRead(t) \/ GetReset(t) \/ Release(t)
SpecCounter == CounterInit /\ [][CounterNext]_vars

\* One call of the loader.
LoaderInit == InitLoader /\ IdleMain /\ IdleStream /\ IdleCounter /\ IdleDtype
LoaderNext ==
    \/ LoaderConnect \/ ReadCsvBatched \/ NextBatches \/ ForDf \/ AddRows
    \/ GetAndReset \/ LoaderFinish \/ LoaderExcept
SpecLoader == LoaderInit /\ [][LoaderNext]_vars

\* One call of the dtype conversion.
DtypeInit == InitDtype /\ IdleMain /\ IdleStream /\ IdleCounter /\ IdleLoader
DtypeNext == ConvertDtypes
SpecDtype == DtypeInit /\ [][DtypeNext]_vars

(***************************************************************************)
(* Properties                                                              *)
(***************************************************************************)
IsPrefix(a, b) == Len(a) <= Len(b) /\ a = SubSeq(b, 1, Len(a))

\* C1 Empty-queue termination: while no job has ever been handed out, main
\* never raises and never starts a heartbeat, a sleep separates consecutive
\* polls, and main returns exactly at poll number max_empty_retries + 1.
C1_EmptyQueueTermination ==
    jobsOffered = 0 =>
        /\ pc \in {"poll", "sleep", "returned"}
        /\ polls <= max_empty_retries + 1
        /\ (pc = "returned") <=> (polls = max_empty_retries + 1)
        /\ pc = "poll" => sleeps = polls
        /\ pc = "sleep" => sleeps = polls - 1
        /\ pc = "returned" => sleeps = max_empty_retries
        /\ hb_thread = None
        /\ \A t \in Threads : hpc[t] = "unborn"
C1_Witness == jobsOffered = 0 /\ pc = "returned" /\ polls = 3 /\ sleeps = 2

\* C2 Stream fidelity: what the reads have returned is always a prefix of the
\* concatenation of the chunks, each read returns as many bytes as it
\* reports, and once a read has returned 0 it is the whole concatenation.
C2_StreamFidelity ==
    /\ IsPrefix(returned, Concat(source))
    /\ SumSeq(reads) = Len(returned)
    /\ (\E i \in 1..Len(reads) : reads[i] = 0) => returned = Concat(source)
C2_Witness ==
    /\ Len(source) = 3 /\ Len(source[1]) = 2 /\ source[2] = <<>> /\ Len(source[3]) = 2
    /\ Len(reads) >= 4 /\ reads[1] = 1 /\ Last(reads) = 0
    /\ returned = <<1, 2, 3, 4>>

\* C3 EOF is never signalled early: a read returns 0 only when the iterator is
\* exhausted and the buffer empty, every byte of every chunk having been
\* returned by the reads before it.
C3_NoEarlyEof ==
    /\ (reads # <<>> /\ Last(reads) = 0) => (chunks = <<>> /\ buffer = <<>>)
    /\ \A i \in 1..Len(reads) :
          reads[i] = 0 => SumSeq(SubSeq(reads, 1, i - 1)) = Len(Concat(source))
C3_Witness ==
    /\ reads # <<>> /\ Last(reads) = 0
    /\ Len(source) = 3 /\ source[1] # <<>> /\ source[2] = <<>> /\ source[3] # <<>>

\* C4 Cancellation: a heartbeat thread starts no PUT /jobs/{id}/heartbeat
\* once its stop event has been set.
C4_NoCallAfterStop ==
    [][\A t \in Threads :
          (hpc[t] = "call" /\ hpc'[t] = "inflight") => ~stop_event[t]]_vars

\* C5 Completion ordering: when the completion report of a job is sent, the
\* heartbeat of that job has been told to stop.
C5_StopBeforeCompletion ==
    \A i \in 1..Len(completeLog) : stop_event[completeLog[i].job]

\* The sum of reg[t] over the threads t of S that are at position pos.
RECURSIVE SumAt(_, _, _)
SumAt(S, pos, reg) ==
    IF S = {} THEN 0
    ELSE LET t == CHOOSE x \in S : TRUE
         IN  (IF cpc[t] = pos THEN reg[t] ELSE 0) + SumAt(S \ {t}, pos, reg)

\* C6 Counter atomicity: what get_and_reset has returned or is about to
\* return, plus the counter, is the sum of the counts of the add_rows calls
\* that have completed or have stored their sum; get_and_reset returns with
\* the counter at zero.
C6_CounterAtomicity ==
    /\ rows_processed + drained + SumAt(CThreads, "get_release", creg)
          = added + SumAt(CThreads, "add_release", carg)
    /\ \A t \in CThreads : cpc[t] = "get_release" => rows_processed = 0
    /\ lock = None => rows_processed + drained = added
C6_Witness ==
    /\ drained > 0
    /\ \E t1, t2 \in CThreads :
          /\ t1 # t2
          /\ cpc[t1] = "add_write"
          /\ cpc[t2] = "add_acquire"

\* C7 Fatal job failure: once process_job has raised, a completion report for
\* the job carrying the error has been sent; when main has raised the
\* heartbeat has been told to stop and no poll has followed.
C7_FatalFailure ==
    pc \in {"except_set", "except_join", "raised"} =>
        /\ completeLog # <<>>
        /\ Last(completeLog).job = Get(next_job).id
        /\ Last(completeLog).params = Some([error_message |-> Get(exc)])
        /\ pc = "raised" => (stop_event[Get(next_job).id] /\ polls = 0)

\* C8 Job configuration honoured: the loader is run with the reader arguments
\* resolved from the job's own config, and with the job's client id and
\* period.
C8_JobConfigHonoured ==
    IsSome(loaderCall) =>
        LET c == Get(loaderCall)
        IN  /\ c.reader = ReaderArgs(Some(c.job.config), DefaultBatchSize)
            /\ c.args.client_id = Some(c.job.client_id)
            /\ c.args.period = Some(c.job.period)

\* What crx must be for period p: a period of digits gives its decimal value,
\* a period with a character no number has (or no character) gives itself.
AllDigits(p) == p # <<>> /\ \A i \in 1..Len(p) : p[i] \in Digits
RECURSIVE DecimalOf(_)
DecimalOf(p) ==
    IF p = <<>> THEN 0
    ELSE DigitVal(Last(p)) + 10 * DecimalOf(SubSeq(p, 1, Len(p) - 1))
NotANumber(p) ==
    p = <<>> \/ \E i \in 1..Len(p) : p[i] \notin Digits \cup {"+", "-", " ", "_"}
CrxFor(p, crx) ==
    /\ AllDigits(p) => crx = [kind |-> "int", int |-> DecimalOf(p), str |-> <<>>]
    /\ NotANumber(p) => crx = [kind |-> "str", int |-> 0, str |-> p]
    /\ crx.kind = "str" => crx.str = p
\* C9 Enrichment: given a client id and a period, every document given to
\* bulk_write has ctr = client id and the same crx: the decimal value of a
\* period made of digits, the period itself when it has a character no
\* number has, and never a string other than the period.
C9_Enrichment ==
    (IsSome(largs.client_id) /\ IsSome(largs.period)) =>
        \A c \in 1..Len(inserted) : \A d \in 1..Len(inserted[c]) :
            /\ inserted[c][d].ctr = largs.client_id
            /\ IsSome(inserted[c][d].crx)
            /\ CrxFor(Get(largs.period), Get(inserted[c][d].crx))
            /\ inserted[c][d].crx = inserted[1][1].crx
C9_Witness ==
    /\ largs.client_id = Some(7) /\ largs.period = Some(Period202401)
    /\ Len(inserted) >= 2
    /\ inserted[2][1].ctr = Some(7)
    /\ Get(inserted[2][1].crx).kind = "int"
    /\ Get(inserted[2][1].crx).int = 202401

CeilDiv(n, b) == (n + b - 1) \div b
SizeField == Field(largs.config, "size")
\* C11 Batch-size resolution: the batch size given to the reader is the
\* decimal value of config.size when that is a string of digits with a
\* positive value; it is the batch_size argument when config or size is
\* absent, when size is empty, not a number, zero or negative; in every case
\* it is positive.
C11_BatchSizeResolution ==
    IsSome(resolved) =>
        LET chunk_size == Get(resolved).batch_size
            size == Get(SizeField)
        IN  /\ ~IsSome(SizeField) => chunk_size = largs.batch_size
            /\ IsSome(SizeField) =>
                  /\ (AllDigits(size) /\ DecimalOf(size) > 0)
                        => chunk_size = DecimalOf(size)
                  /\ (AllDigits(size) /\ DecimalOf(size) = 0)
                        => chunk_size = largs.batch_size
                  /\ NotANumber(size) => chunk_size = largs.batch_size
                  /\ (size # <<>> /\ Head(size) = "-")
                        => chunk_size = largs.batch_size
            /\ chunk_size >= 1

\* Two dtype names are the same name when, the whitespace around them left
\* out, they have the same characters up to the case of the letters.
Blank(c) == c \in {" ", "\t", "\n"}
Trim(s) ==
    IF \A i \in 1..Len(s) : Blank(s[i]) THEN <<>>
    ELSE LET first == CHOOSE i \in 1..Len(s) :
                          ~Blank(s[i]) /\ \A k \in 1..(i - 1) : Blank(s[k])
             last == CHOOSE j \in 1..Len(s) :
                          ~Blank(s[j]) /\ \A k \in (j + 1)..Len(s) : Blank(s[k])
         IN  SubSeq(s, first, last)
SameLetter(c, d) ==
    c = d \/ \E i \in 1..Len(UpperLetters) : {c, d} = {UpperLetters[i], LowerLetters[i]}
SameName(a, b) ==
    LET x == Trim(a)
        y == Trim(b)
    IN  /\ Len(x) = Len(y)
        /\ \A i \in 1..Len(x) : SameLetter(x[i], y[i])
Recognised(name) == \E p \in type_mapping : SameName(name, p[1])
Int64Names ==
    { <<"I", "n", "t", "6", "4">>, <<"i", "n", "t", "6", "4">>,
      <<" ", "I", "N", "T", "6", "4", " ">> }
\* C13 Type mapping: the dict returned has an entry for exactly the columns
\* whose dtype name is, up to case and surrounding whitespace, a key of the
\* mapping, and the entry is the type of every such key; "Int64", "int64"
\* and " INT64 " give Int64, "bogus" gives no entry.
C13_TypeMapping ==
    IsSome(returned_dtypes) =>
        LET result == Get(returned_dtypes)
        IN  /\ DOMAIN result \subseteq DOMAIN given_dtypes
            /\ \A col \in DOMAIN given_dtypes :
                  /\ (col \in DOMAIN result) <=> Recognised(given_dtypes[col])
                  /\ given_dtypes[col] \in Int64Names =>
                        (col \in DOMAIN result /\ result[col] = "Int64")
                  /\ given_dtypes[col] = <<"b", "o", "g", "u", "s">> =>
                        col \notin DOMAIN result
            /\ \A col \in DOMAIN result : \A p \in type_mapping :
                  SameName(given_dtypes[col], p[1]) => result[col] = p[2]
C13_Witness ==
    /\ DOMAIN given_dtypes = {"a"}
    /\ given_dtypes["a"] = <<" ", "I", "N", "T", "6", "4", " ">>
    /\ IsSome(returned_dtypes)
    /\ DOMAIN Get(returned_dtypes) = {"a"}
    /\ Get(returned_dtypes)["a"] = "Int64"

\* C12 Heartbeat resilience: whatever the outcome of a liveness call, the
\* thread goes on to wait; from the wait it goes to the test of the event,
\* from there to the next call while the event is not set; it exits only
\* with the event set.
C12_HeartbeatResilience ==
    [][\A t \in Threads :
          /\ (hpc[t] = "inflight" /\ hpc'[t] # "inflight") => hpc'[t] = "wait"
          /\ (hpc[t] = "wait" /\ hpc'[t] # "wait") => hpc'[t] = "check"
          /\ (hpc[t] = "check" /\ hpc'[t] # "check") =>
                hpc'[t] = IF stop_event[t] THEN "exited" ELSE "call"
          /\ (hpc[t] # "exited" /\ hpc'[t] = "exited") => stop_event[t]]_vars
C12_Witness ==
    \E t \in Threads : hpc[t] = "inflight" /\ hb_failed[t] /\ ~stop_event[t]

\* The heartbeat threads that have been started and have not exited.
AliveHeartbeats == {t \in Threads : hpc[t] \notin {"unborn", "exited"}}
\* C14 One heartbeat alive: at most one heartbeat thread is running at any
\* time.
C14_OneHeartbeatAlive == Cardinality(AliveHeartbeats) <= 1

\* The completion reports sent for job j.
Reports(j) == Len(SelectSeq(completeLog, LAMBDA r : r.job = j))
\* The positions of main before the completion report of the job in hand.
BeforeReport == {"start_heartbeat", "stream_blob", "process_csv", "mark_ok", "mark_failed"}
\* C15 One completion report: every job whose process_job has ended, by
\* return or by exception, has exactly one completion report, whatever the
\* outcome of the PUT; a job still being processed has none.
C15_OneCompletionReport ==
    \A j \in Threads :
        Reports(j) = IF j < jobsOffered \/ (j = jobsOffered /\ pc \notin BeforeReport)
                     THEN 1 ELSE 0
C15_Witness ==
    /\ pc = "raised"
    /\ Len(completeLog) = 2
    /\ completeLog[1].job = 1 /\ completeLog[1].outcome = "failed"
    /\ completeLog[1].params = None
    /\ completeLog[2].job = 2 /\ completeLog[2].outcome = "failed"
    /\ completeLog[2].params # None

\* C16 Resource release: when the completion report of a job is sent,
\* neither the blob stream nor the MongoClient of the job is open.
C16_ReleasedBeforeReport ==
    \A i \in 1..Len(completeLog) :
        /\ completeLog[i].handles.stream # "open"
        /\ completeLog[i].handles.client # "open"

\* C18 Empty-retry counter reset: the counter is the number of empty polls
\* since the last job was acquired (zero while a job is in hand), it never
\* exceeds max_empty_retries + 1, and main returns exactly when it reaches
\* that value.
C18_RetryCounterReset ==
    /\ empty_retries = polls
    /\ empty_retries <= max_empty_retries + 1
    /\ IsSome(next_job) => empty_retries = 0
    /\ (pc = "returned") <=> (empty_retries = max_empty_retries + 1)
C18_Witness ==
    /\ pc = "returned"
    /\ jobsOffered = 2
    /\ Len(completeLog) = 2
    /\ empty_retries = 3

\* The positions of main in the shutdown of a heartbeat: set(), then join.
InShutdown == {"stop_set", "join", "except_set", "except_join"}
\* C19 Heartbeat shutdown returns: main at stop_event.set() or in join always
\* goes on, to the next poll on the success path and to the re-raise on the
\* failure path, whether or not the liveness call in flight ever returns.
C19_ShutdownReturns ==
    /\ (pc \in InShutdown) ~> (pc \notin InShutdown)
    /\ [][/\ (pc \in {"stop_set", "join"} /\ pc' \notin InShutdown) => pc' = "poll"
          /\ (pc \in {"except_set", "except_join"} /\ pc' \notin InShutdown)
                => pc' = "raised"]_vars
C19_Witness ==
    /\ pc = "poll"
    /\ jobsOffered = 1
    /\ hpc[1] = "inflight" /\ stop_event[1]

\* The rows of the batches bulk_write has returned for.
RowsInserted == SumSeq([c \in 1..Len(inserted) |-> Len(inserted[c])])
\* C17 Whole-batch insert failure: once a bulk_write call has raised, no
\* further batch is taken and no bulk_write follows, for that batch or a
\* later one; the batches inserted before stay as they were; the loader ends
\* by raising.
C17_InsertFailureAborts ==
    IsSome(bulk_fail) =>
        /\ lpc \in {"except", "done"}
        /\ lpc = "done" => lresult = "raised"
        /\ chunk_number = Get(bulk_fail).chunk
        /\ inserted = Get(bulk_fail).inserted
        /\ total_rows = RowsInserted
C17_Witness ==
    /\ IsSome(bulk_fail)
    /\ lresult = "raised"
    /\ Len(inserted) = 2
    /\ Len(batches) >= 2

\* C20 Progress accounting: with a processing_state given, the rows drained
\* so far plus the counter equal the rows of the batches bulk_write has
\* returned for, the batch whose add_rows call is about to be made left out;
\* a batch whose bulk_write raised adds nothing.
C20_ProgressAccounting ==
    /\ largs.processing_state =>
          drained_rows + state_rows
              + (IF lpc = "add_rows" THEN Len(Last(inserted)) ELSE 0) = RowsInserted
    /\ ~largs.processing_state => (state_rows = 0 /\ drained_rows = 0)
C20_Witness ==
    /\ largs.processing_state
    /\ IsSome(bulk_fail)
    /\ lresult = "raised"
    /\ drained_rows > 0
    /\ state_rows > 0

\* C21 Failure reports are distinguishable: the completion request of a
\* job whose processing raised carries an error_message parameter, whatever
\* the text of the exception; the request of a job that succeeded carries
\* no parameter.
C21_FailureReportDistinguishable ==
    \A i \in 1..Len(completeLog) :
        IsSome(completeLog[i].error) <=> IsSome(completeLog[i].params)

\* C22 A failed poll counts as an empty poll: every poll that gives no job,
\* the failed ones included, has incremented the empty-retry counter; main
\* raises only out of a job, after the failure report of that job; it
\* returns exactly at max_empty_retries + 1 polls without a job in a row,
\* failed or not.
C22_FailedPollIsEmptyPoll ==
    /\ failed_polls <= polls
    /\ empty_retries = polls
    /\ pc = "raised" =>
          (completeLog # <<>> /\ IsSome(Last(completeLog).error)
           /\ Last(completeLog).job = jobsOffered)
    /\ (pc = "returned") <=> (polls = max_empty_retries + 1)
C22_Witness ==
    /\ pc = "returned"
    /\ jobsOffered = 1
    /\ failed_polls = max_empty_retries + 1
    /\ exc = None

====
